---- MODULE Spec2Model ----
(***************************************************************************)
(* PRTP: Go-Back-N sender (WebClientUDP.py) and receiver (WebServerUDP.py) *)
(* over an unreliable datagram channel.                                    *)
(*                                                                         *)
(* A datagram is a record; ok = FALSE stands for a datagram on which       *)
(* PRTPPacket.deserialize returns None (short or checksum mismatch).       *)
(* A payload is the byte range <<lo, hi>> of the application input it      *)
(* carries (data[lo:hi]); <<0, 0>> is the empty payload b''.               *)
(* cwnd and ssthresh are exact rationals <<numerator, denominator>>.       *)
(* Wall-clock time is abstracted: a running timer may expire at any check. *)
(***************************************************************************)
EXTENDS Integers, Sequences, FiniteSets, TLC

\* ---------------------------------------------------------------- bounds
MaxChunks == 3
MaxAckNum == 3
MaxSeqNum == 2
SmallWindow == 2

\* longest payload handed to the codec, in bytes
MaxPayload == 2

\* ------------------------------------------------------ program constants
HEADER_SIZE == 20

MAX_DATA_SIZE == 1024
MAX_BUFFER_SIZE == 65535
DEFAULT_RWND == 65535
FLAG_SYN == 1
FLAG_ACK == 2
seq_num == 0
CLI_WINDOW == 64

\* Application inputs handed to send_data: lengths in bytes.
DataLens == {0, 5, (MaxChunks - 1) * MAX_DATA_SIZE, MaxChunks * MAX_DATA_SIZE - 96}

\* Application inputs of the sender when it runs against an arbitrary peer.
SenderDataLens == {5, 2 * MAX_DATA_SIZE, (MaxAckNum + 2) * MAX_DATA_SIZE - 96}

\* max_window_size values given to the constructor.
WindowArgs == {SmallWindow, CLI_WINDOW}

\* window_size values a datagram from an arbitrary peer may carry.
WindowSizes == {0, 1000, 2048}

\* ------------------------------------------------------------ arithmetic
RECURSIVE GCD(_, _)
GCD(a, b) == IF b = 0 THEN a ELSE GCD(b, a % b)

Rat(n, d) == LET g == GCD(n, d) IN <<n \div g, d \div g>>

RatInt(k) == <<k, 1>>

RatGE(a, b) == a[1] * b[2] >= b[1] * a[2]

RatMax(a, b) == IF RatGE(a, b) THEN a ELSE b

RatFloor(r) == r[1] \div r[2]

Min(a, b) == IF a <= b THEN a ELSE b

Max(a, b) == IF a >= b THEN a ELSE b

\* ---------------------------------------------------------------- packets
EmptyData == <<0, 0>>

Pkt(seq, ack, win, flags, data) ==
    [ok |-> TRUE, seq_num |-> seq, ack_num |-> ack, window_size |-> win,
     flags |-> flags, data |-> data]

Corrupt ==
    [ok |-> FALSE, seq_num |-> 0, ack_num |-> 0, window_size |-> 0,
     flags |-> 0, data |-> EmptyData]

\* (flags & flag) != 0 for a single-bit flag
has_flag(p, flag) == (p.flags \div flag) % 2 = 1

DataLen(data) == data[2] - data[1]

\* b + data : appending b'' changes nothing
Append_bytes(buf, data) == IF DataLen(data) = 0 THEN buf ELSE Append(buf, data)

RECURSIVE BufLen(_)
BufLen(buf) == IF buf = <<>> THEN 0 ELSE DataLen(Head(buf)) + BufLen(Tail(buf))

\* chunks = [data[i:i+1024] for i in range(0, len(data), 1024)]
total_packets_of(len) == (len + MAX_DATA_SIZE - 1) \div MAX_DATA_SIZE

chunks(len, i) == <<i * MAX_DATA_SIZE, Min(len, (i + 1) * MAX_DATA_SIZE)>>

\* ------------------------------------------------------------------ state
VARIABLES
    \* sender (GoBackNSender)
    c_pc, dlen, max_window_size, base, next_seq_num, send_buffer, connected,
    cwnd, ssthresh, state, receiver_window, running, timer_running,
    effective_window,
    \* receiver (GoBackNReceiver)
    s_pc, s_connected, expected_seq, received_data, available_buffer, returned,
    \* receive's idle clock: "recent" while time.time() - last_activity is at
    \* most idle_timeout, "long_ago" once it is more
    last_activity,
    \* datagrams in flight, per direction
    c2s, s2c,
    \* the last step: its name, the datagram it consumed, the datagrams it sent
    step,
    \* codec (PRTPPacket): the packet object, its bytes on the wire, the bit
    \* positions the wire has flipped, the result of deserialize
    prtp_packet, packet_bytes, flipped, deserialized

cvars == <<c_pc, dlen, max_window_size, base, next_seq_num, send_buffer, connected,
           cwnd, ssthresh, state, receiver_window, running, timer_running,
           effective_window>>

svars == <<s_pc, s_connected, expected_seq, received_data, available_buffer, returned,
           last_activity>>

codec == <<prtp_packet, packet_bytes, flipped, deserialized>>

vars == <<cvars, svars, c2s, s2c, step, codec>>

NoDatagram == <<>>

\* Python's None, where a packet object is expected
None == [none |-> TRUE]

Step(op, rx, tx) == [op |-> op, rx |-> rx, tx |-> tx]

\* A channel is the set of datagrams in flight (a second copy of a datagram
\* already in flight is lost by the channel). socket.sendto of each datagram of
\* the sequence ps:
sendto(net, ps) == net \cup {ps[i] : i \in DOMAIN ps}

\* socket.recvfrom returning datagram p:
recvfrom(net, p) == net \ {p}

\* ------------------------------------------------------------------- Init
\* GoBackNSender.__init__ and GoBackNReceiver.__init__, for an application
\* input of len bytes and the window argument window_size.
Constructed(len, window_size) ==
    /\ c_pc = "start"
    /\ dlen = len
    /\ max_window_size = window_size
    /\ base = 0
    /\ next_seq_num = 0
    /\ send_buffer = <<>>
    /\ connected = FALSE
    /\ cwnd = RatInt(1)
    /\ ssthresh = RatInt(16)
    /\ state = "slow_start"
    /\ receiver_window = DEFAULT_RWND
    /\ running = FALSE
    /\ timer_running = FALSE
    /\ effective_window = 0
    /\ s_pc = "wait_syn"
    /\ s_connected = FALSE
    /\ expected_seq = 0
    /\ received_data = <<>>
    /\ available_buffer = MAX_BUFFER_SIZE
    /\ returned = [kind |-> "nothing", data |-> <<>>]
    /\ last_activity = "recent"
    /\ c2s = {}
    /\ s2c = {}
    /\ step = Step("init", NoDatagram, <<>>)
    /\ prtp_packet = None
    /\ packet_bytes = <<>>
    /\ flipped = {}
    /\ deserialized = None

Init == \E len \in DataLens, window_size \in WindowArgs : Constructed(len, window_size)

SenderInit == \E len \in SenderDataLens, window_size \in WindowArgs : Constructed(len, window_size)

total_packets == total_packets_of(dlen)

\* ------------------------------------------------------ sender: handshake
\* connect, step 1: send SYN (seq 0, ack 0, window 0).
connect_send_syn ==
    /\ c_pc = "start"
    /\ LET syn_packet == Pkt(0, 0, 0, FLAG_SYN, EmptyData) IN
        /\ step' = Step("connect_send_syn", NoDatagram, <<syn_packet>>)
    /\ c_pc' = "syn_sent"
    /\ UNCHANGED <<dlen, max_window_size, base, next_seq_num, send_buffer, connected,
                   cwnd, ssthresh, state, receiver_window, running, timer_running,
                   effective_window>>
    /\ UNCHANGED <<svars, codec>>

\* faulty variant of rwnd_of: the advertised value is stored as it is
rwnd_of_as_advertised(p) == p.window_size

\* the window the sender records from a packet: 0 is stored as 65535
rwnd_of(p) == IF p.window_size > 0 THEN p.window_size ELSE DEFAULT_RWND

\* faulty variant of valid_syn_ack: the SYN flag is not required
valid_syn_ack_any_ack(d) == d.ok /\ has_flag(d, FLAG_ACK)

\* connect: the reply deserializes and has both SYN and ACK set
valid_syn_ack(d) == d.ok /\ has_flag(d, FLAG_SYN) /\ has_flag(d, FLAG_ACK)

\* connect, steps 2..5 on the datagram d that recvfrom returned.
connect_reply(d) ==
    /\ c_pc = "syn_sent"
    /\ IF ~valid_syn_ack(d)
       THEN /\ c_pc' = "failed"
            /\ step' = Step("connect_invalid", d, <<>>)
            /\ UNCHANGED <<receiver_window, connected, base, next_seq_num, running>>
       ELSE LET ack_packet == Pkt(d.ack_num, d.seq_num + 1, 0, FLAG_ACK, EmptyData) IN
            /\ receiver_window' = rwnd_of(d)
            /\ connected' = TRUE
            /\ base' = ack_packet.seq_num
            /\ next_seq_num' = ack_packet.seq_num
            /\ running' = TRUE
            /\ c_pc' = "while"
            /\ step' = Step("connect_ok", d, <<ack_packet>>)
    /\ UNCHANGED <<dlen, max_window_size, send_buffer, cwnd, ssthresh, state,
                   timer_running, effective_window>>
    /\ UNCHANGED <<svars, codec>>

\* connect: no datagram within the 5 s socket timeout.
connect_timeout ==
    /\ c_pc = "syn_sent"
    /\ c_pc' = "failed"
    /\ step' = Step("connect_timeout", NoDatagram, <<>>)
    /\ UNCHANGED <<dlen, max_window_size, base, next_seq_num, send_buffer, connected,
                   cwnd, ssthresh, state, receiver_window, running, timer_running,
                   effective_window>>
    /\ UNCHANGED <<svars, codec>>

\* ------------------------------------------------------ sender: send_data
\* faulty variant of EffectiveWindow: the advertised window is left out
EffectiveWindow_no_rwnd(c, rw, mw) == Min(RatFloor(c), mw)

\* min(int(cwnd), int(receiver_window / MSS), max_window_size)
EffectiveWindow(c, rw, mw) == Min(Min(RatFloor(c), rw \div MAX_DATA_SIZE), mw)

\* `while self.base < total_packets`, read without the lock.
send_data_while ==
    /\ c_pc = "while"
    /\ c_pc' = IF base < total_packets THEN "acquire" ELSE "done"
    /\ step' = Step("send_data_while", NoDatagram, <<>>)
    /\ UNCHANGED <<dlen, max_window_size, base, next_seq_num, send_buffer, connected,
                   cwnd, ssthresh, state, receiver_window, running, timer_running,
                   effective_window>>
    /\ UNCHANGED <<svars, codec>>

\* `with self.lock:` and the window computation that opens the critical section.
send_data_lock ==
    /\ c_pc = "acquire"
    /\ c_pc' = "fill"
    /\ effective_window' = EffectiveWindow(cwnd, receiver_window, max_window_size)
    /\ step' = Step("send_data_lock", NoDatagram, <<>>)
    /\ UNCHANGED <<dlen, max_window_size, base, next_seq_num, send_buffer, connected,
                   cwnd, ssthresh, state, receiver_window, running, timer_running>>
    /\ UNCHANGED <<svars, codec>>

\* faulty variant of may_send_fresh: the window bound is inclusive
may_send_fresh_inclusive ==
    /\ next_seq_num < total_packets
    /\ next_seq_num <= base + effective_window

\* the inner while's condition
may_send_fresh ==
    /\ next_seq_num < total_packets
    /\ next_seq_num < base + effective_window

\* one iteration of the inner while, under the lock: a fresh segment.
send_data_fresh ==
    /\ c_pc = "fill"
    /\ may_send_fresh
    /\ LET packet == Pkt(next_seq_num, 0, 0, FLAG_ACK, chunks(dlen, next_seq_num)) IN
        /\ send_buffer' = [s \in DOMAIN send_buffer \cup {next_seq_num} |->
                              IF s = next_seq_num THEN packet ELSE send_buffer[s]]
        /\ step' = Step("send_data_fresh", NoDatagram, <<packet>>)
    /\ timer_running' = IF base = next_seq_num THEN TRUE ELSE timer_running
    /\ next_seq_num' = next_seq_num + 1
    /\ UNCHANGED <<c_pc, dlen, max_window_size, base, connected, cwnd, ssthresh, state,
                   receiver_window, running, effective_window>>
    /\ UNCHANGED <<svars, codec>>

\* the inner while ends; the lock is released; time.sleep(0.01).
send_data_unlock ==
    /\ c_pc = "fill"
    /\ ~may_send_fresh
    /\ c_pc' = "sleep"
    /\ effective_window' = 0
    /\ step' = Step("send_data_unlock", NoDatagram, <<>>)
    /\ UNCHANGED <<dlen, max_window_size, base, next_seq_num, send_buffer, connected,
                   cwnd, ssthresh, state, receiver_window, running, timer_running>>
    /\ UNCHANGED <<svars, codec>>

\* faulty variant of md_ssthresh: no floor of 2.0
md_ssthresh_no_floor(c) == Rat(c[1], 2 * c[2])

\* max(cwnd / 2, 2.0)
md_ssthresh(c) == RatMax(Rat(c[1], 2 * c[2]), RatInt(2))

RECURSIVE window_packets(_, _, _)
\* _retransmit_window: the stored packets of range(lo, hi) that are in the buffer
window_packets(sb, lo, hi) ==
    IF lo >= hi THEN <<>>
    ELSE (IF lo \in DOMAIN sb THEN <<sb[lo]>> ELSE <<>>) \o window_packets(sb, lo + 1, hi)

\* faulty variant of _retransmit_window: only the oldest segment is resent
_retransmit_window_oldest == window_packets(send_buffer, base, base + 1)

_retransmit_window == window_packets(send_buffer, base, next_seq_num)

\* the timeout check, under the lock, with elapsed >= self.timeout.
send_data_timeout ==
    /\ c_pc = "sleep"
    /\ timer_running /\ base < total_packets
    /\ ssthresh' = md_ssthresh(cwnd)
    /\ cwnd' = RatInt(1)
    /\ state' = "slow_start"
    /\ timer_running' = TRUE
    /\ c_pc' = "while"
    /\ step' = Step("send_data_timeout", NoDatagram, _retransmit_window)
    /\ UNCHANGED <<dlen, max_window_size, base, next_seq_num, send_buffer, connected,
                   receiver_window, running, effective_window>>
    /\ UNCHANGED <<svars, codec>>

\* the timeout check when the timer is stopped, base reached total_packets or
\* elapsed < self.timeout.
send_data_no_timeout ==
    /\ c_pc = "sleep"
    /\ c_pc' = "while"
    /\ step' = Step("send_data_no_timeout", NoDatagram, <<>>)
    /\ UNCHANGED <<dlen, max_window_size, base, next_seq_num, send_buffer, connected,
                   cwnd, ssthresh, state, receiver_window, running, timer_running,
                   effective_window>>
    /\ UNCHANGED <<svars, codec>>

\* ------------------------------------------------- sender: ACK reception
\* faulty variant of cwnd_on_ack: 1 / cwnd per ACK in congestion avoidance,
\* whatever the number of segments the ACK covers
cwnd_on_ack_one_per_ack(st, c, newly_acked) ==
    IF st = "slow_start" THEN Rat(c[1] + newly_acked * c[2], c[2])
    ELSE Rat(c[1] * c[1] + c[2] * c[2], c[1] * c[2])

\* cwnd after an ACK covering newly_acked segments
cwnd_on_ack(st, c, newly_acked) ==
    IF st = "slow_start" THEN Rat(c[1] + newly_acked * c[2], c[2])
    ELSE Rat(c[1] * c[1] + newly_acked * c[2] * c[2], c[1] * c[2])

\* faulty variant of state_on_ack: slow start ends only above ssthresh
state_on_ack_strict(st, c_new, sst) ==
    IF st = "slow_start" /\ RatGE(c_new, sst) /\ c_new # sst THEN "congestion_avoidance" ELSE st

\* the state after an ACK grew cwnd to c_new
state_on_ack(st, c_new, sst) ==
    IF st = "slow_start" /\ RatGE(c_new, sst) THEN "congestion_avoidance" ELSE st

\* faulty variant of del_acked: range(lo, hi) in place of range(lo, hi + 1)
del_acked_exclusive(sb, lo, hi) == [s \in DOMAIN sb \ (lo .. hi - 1) |-> sb[s]]

\* `for seq in range(base, ack_num + 1): del send_buffer[seq]`
del_acked(sb, lo, hi) == [s \in DOMAIN sb \ (lo .. hi) |-> sb[s]]

\* faulty variant of timer_after_ack: restarted although nothing is in flight
timer_after_ack_inclusive(b, n) == b <= n

\* the timer after an ACK slid the window: restarted if segments remain
\* unacknowledged, stopped otherwise
timer_after_ack(b, n) == b < n

\* _handle_ack, under the lock.
_handle_ack(ack_packet) ==
    LET ack_num == ack_packet.ack_num
        newly_acked == ack_num - base + 1 IN
    /\ receiver_window' = rwnd_of(ack_packet)
    /\ IF ack_num >= base
       THEN /\ send_buffer' = del_acked(send_buffer, base, ack_num)
            /\ cwnd' = cwnd_on_ack(state, cwnd, newly_acked)
            /\ state' = state_on_ack(state, cwnd', ssthresh)
            /\ base' = ack_num + 1
            /\ timer_running' = timer_after_ack(base', next_seq_num)
       ELSE UNCHANGED <<send_buffer, cwnd, state, base, timer_running>>

\* one round of _receive_acks on the datagram d that recvfrom returned; the
\* handler waits for the lock, which send_data holds while it fills the window.
_receive_acks(d) ==
    /\ running
    /\ c_pc # "fill"
    /\ IF d.ok /\ has_flag(d, FLAG_ACK)
       THEN /\ _handle_ack(d)
            /\ step' = Step("handle_ack", d, <<>>)
       ELSE /\ UNCHANGED <<receiver_window, send_buffer, cwnd, state, base, timer_running>>
            /\ step' = Step("ack_ignored", d, <<>>)
    /\ UNCHANGED <<c_pc, dlen, max_window_size, next_seq_num, connected, ssthresh,
                   running, effective_window>>
    /\ UNCHANGED <<svars, codec>>

\* close(), called by main after send_data returned.
close ==
    /\ c_pc = "done"
    /\ c_pc' = "closed"
    /\ running' = FALSE
    /\ step' = Step("close", NoDatagram, <<>>)
    /\ UNCHANGED <<dlen, max_window_size, base, next_seq_num, send_buffer, connected,
                   cwnd, ssthresh, state, receiver_window, timer_running,
                   effective_window>>
    /\ UNCHANGED <<svars, codec>>

\* ---------------------------------------------------- receiver: handshake
\* main's reset of the receiver between sessions
reset_receiver ==
    /\ s_connected' = FALSE
    /\ expected_seq' = 0
    /\ received_data' = <<>>
    /\ available_buffer' = MAX_BUFFER_SIZE

\* listen, step 1 and 2, on the datagram d that recvfrom returned.
listen_syn(d) ==
    /\ s_pc = "wait_syn"
    /\ IF d.ok /\ has_flag(d, FLAG_SYN)
       THEN LET syn_ack_packet ==
                    Pkt(seq_num, d.seq_num + 1, available_buffer, FLAG_SYN + FLAG_ACK, EmptyData) IN
            /\ s_pc' = "wait_ack"
            /\ step' = Step("listen_syn", d, <<syn_ack_packet>>)
       ELSE /\ UNCHANGED s_pc
            /\ step' = Step("listen_skip", d, <<>>)
    /\ UNCHANGED <<s_connected, expected_seq, received_data, available_buffer, returned,
                   last_activity>>
    /\ UNCHANGED <<cvars, codec>>

\* faulty variant of initial_expected_seq: the ACK's ack_num field
initial_expected_seq_from_ack(ack_packet) == ack_packet.ack_num

\* `self.expected_seq = ack_packet.seq_num`
initial_expected_seq(ack_packet) == ack_packet.seq_num

\* listen, step 3, on the datagram d that recvfrom returned; when listen returns
\* True main calls receive, which starts its idle clock.
listen_ack(d) ==
    /\ s_pc = "wait_ack"
    /\ IF d.ok /\ has_flag(d, FLAG_ACK)
       THEN /\ expected_seq' = initial_expected_seq(d)
            /\ s_connected' = TRUE
            /\ s_pc' = "receive"
            /\ last_activity' = "recent"
            /\ step' = Step("listen_ack", d, <<>>)
       ELSE /\ s_pc' = "wait_syn"
            /\ step' = Step("listen_invalid_ack", d, <<>>)
            /\ UNCHANGED <<expected_seq, s_connected, last_activity>>
    /\ UNCHANGED <<received_data, available_buffer, returned>>
    /\ UNCHANGED <<cvars, codec>>

\* listen: the 30 s socket timeout; listen returns False and main resets.
listen_timeout ==
    /\ s_pc \in {"wait_syn", "wait_ack"}
    /\ reset_receiver
    /\ s_pc' = "wait_syn"
    /\ step' = Step("listen_timeout", NoDatagram, <<>>)
    /\ UNCHANGED <<returned, last_activity>>
    /\ UNCHANGED <<cvars, codec>>

\* ------------------------------------------------------ receiver: receive
\* faulty variant of ack_packet_of: the whole buffer is advertised
ack_packet_of_full_window(ack_num, avail) ==
    Pkt(seq_num, ack_num, MAX_BUFFER_SIZE, FLAG_ACK, EmptyData)

\* _send_ack: the ACK packet built from the receiver's current state
ack_packet_of(ack_num, avail) == Pkt(seq_num, ack_num, avail, FLAG_ACK, EmptyData)

\* max(0, MAX_BUFFER_SIZE - len(received_data))
available_of(buf) == Max(0, MAX_BUFFER_SIZE - BufLen(buf))

\* faulty variant of out_of_order_acks: acknowledges expected_seq itself
out_of_order_acks_expected(exp, avail) ==
    IF exp > 0 THEN <<ack_packet_of(exp, avail)>> ELSE <<>>

\* the ACKs sent for an out-of-order frame
out_of_order_acks(exp, avail) ==
    IF exp > 0 THEN <<ack_packet_of(exp - 1, avail)>> ELSE <<>>

\* faulty variant of handle_incoming_frame: the in-order branch acknowledges
\* the next expected sequence number
handle_incoming_frame_ack_next(packet) ==
    IF packet.seq_num = expected_seq
    THEN /\ received_data' = Append_bytes(received_data, packet.data)
         /\ available_buffer' = available_of(received_data')
         /\ expected_seq' = expected_seq + 1
         /\ step' = Step("frame_in_order", packet,
                         <<ack_packet_of(expected_seq + 1, available_buffer')>>)
    ELSE IF packet.seq_num < expected_seq
    THEN /\ step' = Step("frame_duplicate", packet, <<ack_packet_of(packet.seq_num, available_buffer)>>)
         /\ UNCHANGED <<received_data, available_buffer, expected_seq>>
    ELSE /\ step' = Step("frame_out_of_order", packet,
                         out_of_order_acks(expected_seq, available_buffer))
         /\ UNCHANGED <<received_data, available_buffer, expected_seq>>

\* faulty variant of handle_incoming_frame: a duplicate is acknowledged like an
\* out-of-order frame, with expected_seq - 1
handle_incoming_frame_dup_acks_last(packet) ==
    IF packet.seq_num = expected_seq
    THEN /\ received_data' = Append_bytes(received_data, packet.data)
         /\ available_buffer' = available_of(received_data')
         /\ expected_seq' = expected_seq + 1
         /\ step' = Step("frame_in_order", packet, <<ack_packet_of(expected_seq, available_buffer')>>)
    ELSE IF packet.seq_num < expected_seq
    THEN /\ step' = Step("frame_duplicate", packet,
                         <<ack_packet_of(expected_seq - 1, available_buffer)>>)
         /\ UNCHANGED <<received_data, available_buffer, expected_seq>>
    ELSE /\ step' = Step("frame_out_of_order", packet,
                         out_of_order_acks(expected_seq, available_buffer))
         /\ UNCHANGED <<received_data, available_buffer, expected_seq>>

\* handle_incoming_frame
handle_incoming_frame(packet) ==
    IF packet.seq_num = expected_seq
    THEN /\ received_data' = Append_bytes(received_data, packet.data)
         /\ available_buffer' = available_of(received_data')
         /\ expected_seq' = expected_seq + 1
         /\ step' = Step("frame_in_order", packet, <<ack_packet_of(expected_seq, available_buffer')>>)
    ELSE IF packet.seq_num < expected_seq
    THEN /\ step' = Step("frame_duplicate", packet, <<ack_packet_of(packet.seq_num, available_buffer)>>)
         /\ UNCHANGED <<received_data, available_buffer, expected_seq>>
    ELSE /\ step' = Step("frame_out_of_order", packet,
                         out_of_order_acks(expected_seq, available_buffer))
         /\ UNCHANGED <<received_data, available_buffer, expected_seq>>

\* faulty variant of receive: the result of deserialize is not tested
receive_unchecked(d) ==
    /\ s_pc = "receive"
    /\ last_activity' = "recent"
    /\ handle_incoming_frame(d)
    /\ UNCHANGED <<s_pc, s_connected, returned>>
    /\ UNCHANGED <<cvars, codec>>

\* faulty variant of receive: last_activity is refreshed before the result of
\* deserialize is tested
receive_refresh_first(d) ==
    /\ s_pc = "receive"
    /\ last_activity' = "recent"
    /\ IF ~d.ok
       THEN /\ step' = Step("receive_invalid", d, <<>>)
            /\ UNCHANGED <<received_data, available_buffer, expected_seq>>
       ELSE handle_incoming_frame(d)
    /\ UNCHANGED <<s_pc, s_connected, returned>>
    /\ UNCHANGED <<cvars, codec>>

\* one round of receive's loop on the datagram d that recvfrom returned.
receive(d) ==
    /\ s_pc = "receive"
    /\ IF ~d.ok
       THEN /\ step' = Step("receive_invalid", d, <<>>)
            /\ UNCHANGED <<received_data, available_buffer, expected_seq, last_activity>>
       ELSE /\ last_activity' = "recent"
            /\ handle_incoming_frame(d)
    /\ UNCHANGED <<s_pc, s_connected, returned>>
    /\ UNCHANGED <<cvars, codec>>

\* More than idle_timeout has passed since last_activity was set.
idle_elapse ==
    /\ s_pc = "receive"
    /\ last_activity = "recent"
    /\ last_activity' = "long_ago"
    /\ step' = Step("idle_elapse", NoDatagram, <<>>)
    /\ UNCHANGED <<s_pc, s_connected, expected_seq, received_data, available_buffer, returned>>
    /\ UNCHANGED <<cvars, codec, c2s, s2c>>

\* receive: recvfrom timed out and the idle clock is beyond idle_timeout;
\* receive returns and main resets the receiver for the next session.
receive_idle ==
    /\ s_pc = "receive"
    /\ last_activity = "long_ago"
    /\ returned' = IF BufLen(received_data) > 0
                   THEN [kind |-> "data", data |-> received_data]
                   ELSE [kind |-> "none", data |-> <<>>]
    /\ reset_receiver
    /\ s_pc' = "wait_syn"
    /\ step' = Step("receive_idle", NoDatagram, <<>>)
    /\ UNCHANGED last_activity
    /\ UNCHANGED <<cvars, codec>>

\* ------------------------------------------------------------ the system
\* Each step of the sender and of the receiver, with the channel between them:
\* what the step sends goes onto the channel, and the datagram its recvfrom
\* returns is taken off the channel.
Net_connect_send_syn ==
    /\ connect_send_syn
    /\ c2s' = sendto(c2s, step'.tx)
    /\ UNCHANGED s2c

Net_connect_reply ==
    \E d \in s2c :
        /\ connect_reply(d)
        /\ s2c' = recvfrom(s2c, d)
        /\ c2s' = sendto(c2s, step'.tx)

Net_connect_timeout ==
    /\ connect_timeout
    /\ c2s' = sendto(c2s, step'.tx)
    /\ UNCHANGED s2c

Net_send_data_while ==
    /\ send_data_while
    /\ c2s' = sendto(c2s, step'.tx)
    /\ UNCHANGED s2c

Net_send_data_lock ==
    /\ send_data_lock
    /\ c2s' = sendto(c2s, step'.tx)
    /\ UNCHANGED s2c

Net_send_data_fresh ==
    /\ send_data_fresh
    /\ c2s' = sendto(c2s, step'.tx)
    /\ UNCHANGED s2c

Net_send_data_unlock ==
    /\ send_data_unlock
    /\ c2s' = sendto(c2s, step'.tx)
    /\ UNCHANGED s2c

Net_send_data_timeout ==
    /\ send_data_timeout
    /\ c2s' = sendto(c2s, step'.tx)
    /\ UNCHANGED s2c

Net_send_data_no_timeout ==
    /\ send_data_no_timeout
    /\ c2s' = sendto(c2s, step'.tx)
    /\ UNCHANGED s2c

Net_receive_acks ==
    \E d \in s2c :
        /\ _receive_acks(d)
        /\ s2c' = recvfrom(s2c, d)
        /\ c2s' = sendto(c2s, step'.tx)

Net_close ==
    /\ close
    /\ c2s' = sendto(c2s, step'.tx)
    /\ UNCHANGED s2c

Net_listen_syn ==
    \E d \in c2s :
        /\ listen_syn(d)
        /\ c2s' = recvfrom(c2s, d)
        /\ s2c' = sendto(s2c, step'.tx)

Net_listen_ack ==
    \E d \in c2s :
        /\ listen_ack(d)
        /\ c2s' = recvfrom(c2s, d)
        /\ s2c' = sendto(s2c, step'.tx)

Net_listen_timeout ==
    /\ listen_timeout
    /\ s2c' = sendto(s2c, step'.tx)
    /\ UNCHANGED c2s

Net_receive ==
    \E d \in c2s :
        /\ receive(d)
        /\ c2s' = recvfrom(c2s, d)
        /\ s2c' = sendto(s2c, step'.tx)

Net_receive_idle ==
    /\ receive_idle
    /\ s2c' = sendto(s2c, step'.tx)
    /\ UNCHANGED c2s

\* The channel loses a datagram sent by the sender.
drop_c2s ==
    /\ \E d \in c2s : c2s' = recvfrom(c2s, d)
    /\ step' = Step("drop", NoDatagram, <<>>)
    /\ UNCHANGED <<cvars, svars, codec, s2c>>

\* The channel loses a datagram sent by the receiver.
drop_s2c ==
    /\ \E d \in s2c : s2c' = recvfrom(s2c, d)
    /\ step' = Step("drop", NoDatagram, <<>>)
    /\ UNCHANGED <<cvars, svars, codec, c2s>>

Next ==
    \/ Net_connect_send_syn
    \/ Net_connect_reply
    \/ Net_connect_timeout
    \/ Net_send_data_while
    \/ Net_send_data_lock
    \/ Net_send_data_fresh
    \/ Net_send_data_unlock
    \/ Net_send_data_timeout
    \/ Net_send_data_no_timeout
    \/ Net_receive_acks
    \/ Net_close
    \/ Net_listen_syn
    \/ Net_listen_ack
    \/ Net_listen_timeout
    \/ Net_receive
    \/ Net_receive_idle
    \/ idle_elapse
    \/ drop_c2s
    \/ drop_s2c

\* One client session against the server, over a channel that loses, delays
\* and reorders datagrams.
Spec == Init /\ [][Next]_vars

\* ------------------------------------------- the system, noisy channel
\* The channel damages a datagram sent by the sender: what arrives no longer
\* deserializes.
corrupt_c2s ==
    /\ \E d \in c2s : d.ok /\ c2s' = sendto(recvfrom(c2s, d), <<Corrupt>>)
    /\ step' = Step("corrupt", NoDatagram, <<>>)
    /\ UNCHANGED <<cvars, svars, codec, s2c>>

\* The channel damages a datagram sent by the receiver.
corrupt_s2c ==
    /\ \E d \in s2c : d.ok /\ s2c' = sendto(recvfrom(s2c, d), <<Corrupt>>)
    /\ step' = Step("corrupt", NoDatagram, <<>>)
    /\ UNCHANGED <<cvars, svars, codec, c2s>>

\* the application inputs of the sessions over the noisy channel
NoisyDataLens == {5, (MaxChunks - 1) * MAX_DATA_SIZE - 96, (MaxChunks - 1) * MAX_DATA_SIZE}

NoisyInit == \E len \in NoisyDataLens : Constructed(len, CLI_WINDOW)

NoisyNext ==
    \/ Next
    \/ corrupt_c2s
    \/ corrupt_s2c

\* One client session against the server, over a channel that loses, delays,
\* reorders and damages datagrams.
NoisySpec == NoisyInit /\ [][NoisyNext]_vars

\* ---------------------------------------- the system, loss-free channel
\* the application inputs of the loss-free sessions: a short sentence and
\* whole chunks
LossFreeDataLens == {5, (MaxChunks - 1) * MAX_DATA_SIZE, MaxChunks * MAX_DATA_SIZE}

LossFreeInit == \E len \in LossFreeDataLens : Constructed(len, CLI_WINDOW)

LossFreeNext ==
    \/ Net_connect_send_syn
    \/ Net_connect_reply
    \/ Net_send_data_while
    \/ Net_send_data_lock
    \/ Net_send_data_fresh
    \/ Net_send_data_unlock
    \/ Net_send_data_no_timeout
    \/ Net_receive_acks
    \/ Net_close
    \/ Net_listen_syn
    \/ Net_listen_ack
    \/ Net_receive

\* One client session against the server over a channel that loses nothing and
\* delivers every datagram before any timer expires.
LossFreeSpec == LossFreeInit /\ [][LossFreeNext]_vars

\* ------------------------------------- the system, a long input in bursts
\* an application input of 65 whole chunks, one chunk and a byte more than
\* the receiver's buffer
BulkDataLen == MAX_BUFFER_SIZE + MAX_DATA_SIZE + 1

BulkInit == Constructed(BulkDataLen, CLI_WINDOW)

\* receive's recvfrom returns the datagrams of the sender in the order sent; a
\* burst that send_data is sending arrives after its last segment has left.
InOrder_receive ==
    \E d \in c2s :
        /\ c_pc # "fill"
        /\ \A e \in c2s : d.seq_num <= e.seq_num
        /\ receive(d)
        /\ c2s' = recvfrom(c2s, d)
        /\ s2c' = sendto(s2c, step'.tx)

\* _receive_acks' recvfrom returns the newest of the at most two ACKs left in
\* flight, once the receiver has seen everything the sender has sent: the ACK
\* before the last of a burst may arrive after the last.
Newest_receive_acks ==
    \E d \in s2c :
        /\ c2s = {}
        /\ Cardinality(s2c) <= 2
        /\ \A e \in s2c : e.ack_num <= d.ack_num
        /\ _receive_acks(d)
        /\ s2c' = recvfrom(s2c, d)
        /\ c2s' = sendto(c2s, step'.tx)

\* The channel loses the oldest ACK in flight when a newer one covers it.
drop_covered_s2c ==
    /\ \E d \in s2c :
          /\ \A e \in s2c : d.ack_num <= e.ack_num
          /\ \E e \in s2c : d.ack_num < e.ack_num
          /\ s2c' = recvfrom(s2c, d)
    /\ step' = Step("drop", NoDatagram, <<>>)
    /\ UNCHANGED <<cvars, svars, codec, c2s>>

BulkNext ==
    \/ Net_connect_send_syn
    \/ Net_connect_reply
    \/ Net_send_data_while
    \/ Net_send_data_lock
    \/ Net_send_data_fresh
    \/ Net_send_data_unlock
    \/ Net_send_data_no_timeout
    \/ Newest_receive_acks
    \/ Net_listen_syn
    \/ Net_listen_ack
    \/ InOrder_receive
    \/ drop_covered_s2c

\* One client session against the server on an input longer than the
\* receiver's buffer, over a channel that keeps the order of the data segments,
\* loses none of them, delivers the last ACK of every burst, may deliver the
\* ACK before it late and may lose the ACKs before the last; no datagram is
\* late enough for the sender's timer to expire.
BulkSpec == BulkInit /\ [][BulkNext]_vars

\* ------------------------------------------------- the sender, any peer
\* Datagrams an arbitrary peer may deliver to the sender's socket.
AnyToSender ==
    {Corrupt} \cup
    {Pkt(seq_num, a, w, f, EmptyData) :
        a \in 0 .. MaxAckNum, w \in WindowSizes, f \in {FLAG_SYN, FLAG_ACK, FLAG_SYN + FLAG_ACK}}

\* Each step of the sender when the peer is arbitrary: the datagram recvfrom
\* returns is any of AnyToSender, and what the sender sends goes to the peer.
Any_connect_send_syn == connect_send_syn /\ UNCHANGED <<c2s, s2c>>

Any_connect_reply == \E d \in AnyToSender : connect_reply(d) /\ UNCHANGED <<c2s, s2c>>

Any_connect_timeout == connect_timeout /\ UNCHANGED <<c2s, s2c>>

Any_send_data_while == send_data_while /\ UNCHANGED <<c2s, s2c>>

Any_send_data_lock == send_data_lock /\ UNCHANGED <<c2s, s2c>>

Any_send_data_fresh == send_data_fresh /\ UNCHANGED <<c2s, s2c>>

Any_send_data_unlock == send_data_unlock /\ UNCHANGED <<c2s, s2c>>

Any_send_data_timeout == send_data_timeout /\ UNCHANGED <<c2s, s2c>>

Any_send_data_no_timeout == send_data_no_timeout /\ UNCHANGED <<c2s, s2c>>

Any_receive_acks == \E d \in AnyToSender : _receive_acks(d) /\ UNCHANGED <<c2s, s2c>>

Any_close == close /\ UNCHANGED <<c2s, s2c>>

SenderNext ==
    \/ Any_connect_send_syn
    \/ Any_connect_reply
    \/ Any_connect_timeout
    \/ Any_send_data_while
    \/ Any_send_data_lock
    \/ Any_send_data_fresh
    \/ Any_send_data_unlock
    \/ Any_send_data_timeout
    \/ Any_send_data_no_timeout
    \/ Any_receive_acks
    \/ Any_close

\* The sender alone: every datagram it receives is chosen by the peer.
SenderSpec == SenderInit /\ [][SenderNext]_vars

\* -------------------------------------- the sender, an orderly peer
\* _receive_acks' recvfrom returns a datagram of a peer that, once the
\* connection is up, acknowledges only segments in flight.
Orderly_receive_acks ==
    \E d \in AnyToSender :
        /\ d.ok /\ has_flag(d, FLAG_ACK)
        /\ base <= d.ack_num /\ d.ack_num < next_seq_num
        /\ _receive_acks(d)
        /\ UNCHANGED <<c2s, s2c>>

OrderlyNext ==
    \/ Any_connect_send_syn
    \/ Any_connect_reply
    \/ Any_connect_timeout
    \/ Any_send_data_while
    \/ Any_send_data_lock
    \/ Any_send_data_fresh
    \/ Any_send_data_unlock
    \/ Any_send_data_timeout
    \/ Any_send_data_no_timeout
    \/ Orderly_receive_acks
    \/ Any_close

\* The sender against a peer whose every ACK acknowledges a segment in flight;
\* the window it advertises is arbitrary.
OrderlySpec == SenderInit /\ [][OrderlyNext]_vars

\* ----------------------------------------------- the receiver, any peer
\* Datagrams an arbitrary peer may deliver to the receiver's socket.
AnyToReceiver ==
    {Corrupt} \cup
    UNION {{Pkt(s, 0, 0, f, data) :
                f \in {FLAG_SYN, FLAG_ACK},
                data \in {EmptyData, chunks((MaxSeqNum + 1) * MAX_DATA_SIZE - 96, s)}} :
           s \in 0 .. MaxSeqNum}

\* Each step of the receiver when the peer is arbitrary.
Any_listen_syn == \E d \in AnyToReceiver : listen_syn(d) /\ UNCHANGED <<c2s, s2c>>

Any_listen_ack == \E d \in AnyToReceiver : listen_ack(d) /\ UNCHANGED <<c2s, s2c>>

Any_listen_timeout == listen_timeout /\ UNCHANGED <<c2s, s2c>>

Any_receive == \E d \in AnyToReceiver : receive(d) /\ UNCHANGED <<c2s, s2c>>

Any_receive_idle == receive_idle /\ UNCHANGED <<c2s, s2c>>

ReceiverNext ==
    \/ Any_listen_syn
    \/ Any_listen_ack
    \/ Any_listen_timeout
    \/ Any_receive
    \/ Any_receive_idle
    \/ idle_elapse

\* The receiver alone: every datagram it receives is chosen by the peer.
ReceiverSpec == Init /\ [][ReceiverNext]_vars

\* ------------------------------------------------------------ the codec
\* PRTPPacket at the level of bytes. A 32-bit unsigned field is the pair
\* <<high 16 bits, low 16 bits>>, a 16-bit field a number 0 .. 65535, a byte a
\* number 0 .. 255, the payload and the wire form sequences of bytes.
U32(hi, lo) == <<hi, lo>>

\* struct.pack('!I', v): four bytes, most significant first
pack_I(v) == <<v[1] \div 256, v[1] % 256, v[2] \div 256, v[2] % 256>>

\* struct.pack('!H', v)
pack_H(v) == <<v \div 256, v % 256>>

\* struct.pack('!IIHHBBBBI', ...)
pack(seq, ack, window, checksum, flags, r1, r2, r3, timestamp) ==
    pack_I(seq) \o pack_I(ack) \o pack_H(window) \o pack_H(checksum)
        \o <<flags, r1, r2, r3>> \o pack_I(timestamp)

\* struct.unpack('!I', b) of the four bytes of b from offset o (0-based)
unpack_I(b, o) == U32(b[o + 1] * 256 + b[o + 2], b[o + 3] * 256 + b[o + 4])

\* faulty variant of unpack_H: least significant byte first
unpack_H_little_endian(b, o) == b[o + 2] * 256 + b[o + 1]

\* struct.unpack('!H', b) of the two bytes of b from offset o (0-based)
unpack_H(b, o) == b[o + 1] * 256 + b[o + 2]

\* PRTPPacket.__init__ followed by the assignment of timestamp
PRTPPacket(seq, ack, window, flags, data, timestamp) ==
    [seq_num |-> seq, ack_num |-> ack, window_size |-> window, flags |-> flags,
     data |-> data, timestamp |-> timestamp, checksum |-> 0]

RECURSIVE checksum_loop(_, _, _)
\* the loop of calculate_checksum from 1-based position i with the running sum
checksum_loop(bytes, i, checksum) ==
    IF i > Len(bytes) THEN checksum
    ELSE LET word == IF i + 1 <= Len(bytes) THEN bytes[i] * 256 + bytes[i + 1]
                     ELSE bytes[i] * 256
             sum == checksum + word IN
         checksum_loop(bytes, i + 2, (sum % 65536) + (sum \div 65536))

\* calculate_checksum: ~checksum & 0xFFFF over the header, with a zero
\* checksum field and zero reserved bytes, followed by the payload
calculate_checksum(p) ==
    65535 - checksum_loop(pack(p.seq_num, p.ack_num, p.window_size, 0, p.flags,
                               0, 0, 0, p.timestamp) \o p.data, 1, 0)

\* serialize: the bytes returned
serialize(p) ==
    pack(p.seq_num, p.ack_num, p.window_size, calculate_checksum(p), p.flags,
         0, 0, 0, p.timestamp) \o p.data

\* deserialize
deserialize(bytes) ==
    IF Len(bytes) < HEADER_SIZE THEN None
    ELSE LET received_checksum == unpack_H(bytes, 10)
             p == PRTPPacket(unpack_I(bytes, 0), unpack_I(bytes, 4), unpack_H(bytes, 8),
                             bytes[13], SubSeq(bytes, HEADER_SIZE + 1, Len(bytes)),
                             unpack_I(bytes, 16)) IN
         IF received_checksum # calculate_checksum(p) THEN None
         ELSE [p EXCEPT !.checksum = received_checksum]

\* byte v with bit k (0 = least significant) inverted
flip_bit(v, k) == IF (v \div (2 ^ k)) % 2 = 1 THEN v - 2 ^ k ELSE v + 2 ^ k

\* the bytes with bit number b inverted, bits numbered from the most
\* significant bit of the first byte
flip(bytes, b) ==
    [bytes EXCEPT ![b \div 8 + 1] = flip_bit(bytes[b \div 8 + 1], 7 - (b % 8))]

\* payloads of at most n bytes over the byte values 0 and 255
RECURSIVE Payloads(_)
Payloads(n) ==
    IF n = 0 THEN {<<>>}
    ELSE Payloads(n - 1) \cup
         {Append(d, v) : d \in {x \in Payloads(n - 1) : Len(x) = n - 1}, v \in {0, 255}}

\* the packets handed to the codec
CodecPackets ==
    {PRTPPacket(seq, ack, window, flags, data, timestamp) :
        seq \in {U32(0, 0), U32(65535, 65535)},
        ack \in {U32(0, 1), U32(32768, 0)},
        window \in {0, 65535},
        flags \in {FLAG_SYN, FLAG_ACK, 255},
        data \in Payloads(MaxPayload),
        timestamp \in {U32(0, 0), U32(4660, 22136)}}

\* PRTPPacket(...): a packet object is created
codec_init ==
    /\ step.op = "init"
    /\ \E p \in CodecPackets : prtp_packet' = p
    /\ step' = Step("PRTPPacket", NoDatagram, <<>>)
    /\ UNCHANGED <<packet_bytes, flipped, deserialized>>
    /\ UNCHANGED <<cvars, svars, c2s, s2c>>

\* packet.serialize(): the checksum is stored in the object and the bytes go
\* onto the wire
codec_serialize ==
    /\ step.op = "PRTPPacket"
    /\ prtp_packet' = [prtp_packet EXCEPT !.checksum = calculate_checksum(prtp_packet)]
    /\ packet_bytes' = serialize(prtp_packet)
    /\ step' = Step("serialize", NoDatagram, <<>>)
    /\ UNCHANGED <<flipped, deserialized>>
    /\ UNCHANGED <<cvars, svars, c2s, s2c>>

\* the wire inverts one bit of the serialized packet
codec_flip ==
    /\ step.op = "serialize"
    /\ \E b \in 0 .. (8 * Len(packet_bytes) - 1) :
          /\ packet_bytes' = flip(packet_bytes, b)
          /\ flipped' = {b}
    /\ step' = Step("flip", NoDatagram, <<>>)
    /\ UNCHANGED <<prtp_packet, deserialized>>
    /\ UNCHANGED <<cvars, svars, c2s, s2c>>

\* PRTPPacket.deserialize(packet_bytes)
codec_deserialize ==
    /\ step.op \in {"serialize", "flip"}
    /\ deserialized' = deserialize(packet_bytes)
    /\ step' = Step("deserialize", NoDatagram, <<>>)
    /\ UNCHANGED <<prtp_packet, packet_bytes, flipped>>
    /\ UNCHANGED <<cvars, svars, c2s, s2c>>

CodecNext ==
    \/ codec_init
    \/ codec_serialize
    \/ codec_flip
    \/ codec_deserialize

CodecInit == Constructed(5, CLI_WINDOW)

\* A packet is created, serialized, possibly damaged in one bit, and
\* deserialized.
CodecSpec == CodecInit /\ [][CodecNext]_vars

\* ================================================================ claims
\* buf is the bytes data[from : m] of the application input, for some m
RECURSIVE Contiguous(_, _)
Contiguous(buf, from) ==
    buf = <<>> \/ (Head(buf)[1] = from /\ Contiguous(Tail(buf), Head(buf)[2]))

\* the steps of the sender
SenderOps ==
    {"connect_send_syn", "connect_invalid", "connect_ok", "connect_timeout",
     "send_data_while", "send_data_lock", "send_data_fresh", "send_data_unlock",
     "send_data_timeout", "send_data_no_timeout", "handle_ack", "ack_ignored", "close"}

\* min(floor(cwnd), floor(rwnd_bytes / MSS), max_window_segs), written out
ClaimedWindow(c, rw, mw) ==
    LET a == c[1] \div c[2]
        b == rw \div 1024
        m == IF a <= b THEN a ELSE b IN
    IF m <= mw THEN m ELSE mw

\* C1 (Spec): while a session is open the receiver's delivery buffer is a
\* prefix of the application input, and once send_data has returned and no
\* datagram of the sender is in flight it is the whole input.
C1_MonotoneDelivery ==
    (connected /\ s_pc = "receive") =>
        /\ Contiguous(received_data, 0)
        /\ (c_pc \in {"done", "closed"} /\ c2s = {}) => BufLen(received_data) = dlen

C3_SenderStructure ==
    connected =>
        /\ base <= next_seq_num
        /\ DOMAIN send_buffer = base .. (next_seq_num - 1)

\* C4 (OrderlySpec), as claimed: at every instant the number of segments in
\* flight is at most the effective window of the current cwnd and rwnd_bytes.
C4_WindowRespected ==
    connected => next_seq_num - base <= ClaimedWindow(cwnd, receiver_window, max_window_size)

\* C4 (OrderlySpec), amended: right after every fresh send the number of
\* segments in flight is at most the effective window of the current cwnd and
\* rwnd_bytes, and at every instant it is at most max_window_segs.
C4_WindowAtSend ==
    [][/\ (connected /\ next_seq_num' # next_seq_num) =>
              next_seq_num' - base' <= ClaimedWindow(cwnd', receiver_window', max_window_size')
       /\ next_seq_num' - base' <= max_window_size'
      ]_vars

\* C4: a fresh send has just filled a window of two segments.
C4_Witness ==
    /\ step.op = "send_data_fresh"
    /\ next_seq_num - base = 2
    /\ ClaimedWindow(cwnd, receiver_window, max_window_size) = 2

\* C5 (SenderSpec): outside the critical section of send_data the timer is
\* running iff base < next_seq.
C5_TimerInvariant ==
    c_pc # "fill" => (timer_running <=> base < next_seq_num)

\* C5: an ACK has just stopped the timer: nothing is left unacknowledged.
C5_Witness ==
    /\ step.op = "handle_ack"
    /\ step.rx.ack_num >= 1
    /\ base = next_seq_num
    /\ ~timer_running
    /\ DOMAIN send_buffer = {}
    /\ c_pc # "fill"

\* C6 (SenderSpec): cwnd >= 1 in every state, and a timeout leaves cwnd = 1,
\* state = slow_start and ssthresh = max(c / 2, 2) for the cwnd c before it.
C6_AIMDBounds ==
    [][/\ cwnd'[2] > 0 /\ cwnd'[1] >= cwnd'[2]
       /\ step'.op = "send_data_timeout" =>
            /\ cwnd' = <<1, 1>>
            /\ state' = "slow_start"
            /\ IF cwnd[1] >= 4 * cwnd[2]
               THEN ssthresh'[1] * 2 * cwnd[2] = cwnd[1] * ssthresh'[2]
               ELSE ssthresh' = <<2, 1>>
      ]_vars

\* C6: a timeout has just halved a cwnd above 4.
C6_Witness ==
    /\ step.op = "send_data_timeout"
    /\ ssthresh[1] > 2 * ssthresh[2]
    /\ cwnd = <<1, 1>>

\* C7 (Spec): processing an ACK with ack_num < base changes no sender state
\* and sends nothing.
C7_StaleAckNoOp ==
    [][(step'.op = "handle_ack" /\ step'.rx.ack_num < base) =>
            /\ UNCHANGED <<base, next_seq_num, send_buffer, cwnd, ssthresh, state,
                           receiver_window, timer_running>>
            /\ step'.tx = <<>>
      ]_vars

\* C8 (SenderSpec): a fresh segment is sent only when next_seq < N and
\* next_seq < base + W, for the W of the cwnd and rwnd_bytes of that critical
\* section; after the send at most W segments are in flight; with
\* rwnd_bytes = 2048 no fresh segment is sent while two are unacknowledged.
C8_TransmissionGating ==
    [][/\ c_pc' = "fill" =>
              effective_window' = ClaimedWindow(cwnd', receiver_window', max_window_size')
       /\ (connected /\ next_seq_num' # next_seq_num) =>
              /\ next_seq_num < total_packets
              /\ next_seq_num < base + ClaimedWindow(cwnd, receiver_window, max_window_size)
              /\ next_seq_num' - base' <= ClaimedWindow(cwnd, receiver_window, max_window_size)
              /\ receiver_window = 2048 => next_seq_num - base < 2
      ]_vars

\* C8: rwnd_bytes = 2048 alone holds the sender at two segments in flight.
C8_Witness ==
    /\ c_pc = "fill"
    /\ receiver_window = 2048
    /\ cwnd[1] >= 3 * cwnd[2]
    /\ max_window_size >= 3
    /\ next_seq_num - base = 2
    /\ next_seq_num < total_packets
    /\ step.op = "send_data_fresh"

\* C9 (Spec): when listen marks the receiver connected, expected_seq is the
\* sender's first data sequence number (base, which no ACK has yet moved).
C9_HandshakeAgreement ==
    step.op = "listen_ack" =>
        /\ connected
        /\ s_connected
        /\ expected_seq = base
        /\ \A s \in DOMAIN send_buffer : s >= expected_seq

\* C9: the handshake ACK was lost or late and a data segment completed listen.
C9_Witness ==
    /\ step.op = "listen_ack"
    /\ DataLen(step.rx.data) > 0
    /\ s_connected

\* C10 (ReceiverSpec): a valid segment with seq_num > expected_seq changes
\* neither expected_seq, the delivery buffer nor available, and makes the
\* receiver send one ACK for expected_seq - 1 if expected_seq > 0, nothing if
\* expected_seq = 0.
C10_OutOfOrderDiscarded ==
    [][(/\ s_pc = "receive" /\ s_pc' = "receive"
        /\ step'.rx # NoDatagram
        /\ step'.rx.ok
        /\ step'.rx.seq_num > expected_seq) =>
            /\ UNCHANGED <<expected_seq, received_data, available_buffer>>
            /\ IF expected_seq > 0
               THEN /\ Len(step'.tx) = 1
                    /\ step'.tx[1].ack_num = expected_seq - 1
                    /\ step'.tx[1].flags = 2
               ELSE step'.tx = <<>>
      ]_vars

\* C10: an out-of-order segment arrived while expected_seq = 0; nothing is sent.
C10_Witness ==
    /\ step.op = "frame_out_of_order"
    /\ expected_seq = 0
    /\ step.tx = <<>>
    /\ s_pc = "receive"

\* the steps of receive's loop and of the ACK-receive thread that consume a
\* datagram
ReceiveOps == {"receive_invalid", "frame_in_order", "frame_duplicate", "frame_out_of_order"}

AckThreadOps == {"handle_ack", "ack_ignored"}

\* C11 (NoisySpec): a datagram that does not deserialize, consumed by receive
\* in the data phase or by the sender's ACK-receive thread, changes no state of
\* either side and makes neither side send anything.
C11_CorruptDropped ==
    [][(step'.rx = Corrupt /\ step'.op \in ReceiveOps \cup AckThreadOps) =>
            /\ UNCHANGED <<cvars, svars>>
            /\ step'.tx = <<>>
            /\ c2s' \subseteq c2s /\ s2c' \subseteq s2c
      ]_vars

\* C11: the receiver has just dropped a damaged datagram in the middle of a
\* transfer, while a damaged ACK is on its way to the sender.
C11_Witness ==
    /\ step.op = "receive_invalid" /\ step.rx = Corrupt
    /\ expected_seq >= 2 /\ Corrupt \in s2c /\ running

\* C12 (ReceiverSpec): in the data phase a valid packet with the SYN flag
\* changes no receiver state and makes the receiver send nothing.
C12_UnexpectedFlagsDropped ==
    [][(/\ s_pc = "receive" /\ step'.op \in ReceiveOps
        /\ step'.rx.ok /\ has_flag(step'.rx, FLAG_SYN)) =>
            /\ UNCHANGED <<expected_seq, received_data, available_buffer>>
            /\ step'.tx = <<>>
      ]_vars

\* C13 (SenderSpec): connect fails on a timeout and on every reply that is not
\* a valid SYN+ACK; it then has sent nothing but its one SYN, is not connected,
\* has base = next_seq = 0 and no ACK-receive thread, and does nothing more.
C13_HandshakeFailure ==
    [][/\ (/\ c_pc = "syn_sent" /\ step'.op \in SenderOps
           /\ ~(/\ step'.rx # NoDatagram /\ step'.rx.ok
                /\ has_flag(step'.rx, FLAG_SYN) /\ has_flag(step'.rx, FLAG_ACK))) =>
              /\ c_pc' = "failed" /\ step'.tx = <<>>
              /\ ~connected' /\ base' = 0 /\ next_seq_num' = 0 /\ ~running'
       /\ c_pc = "failed" => UNCHANGED <<cvars, step>>
       /\ \A i \in DOMAIN step'.tx :
              has_flag(step'.tx[i], FLAG_SYN) => c_pc = "start" /\ Len(step'.tx) = 1
       /\ c_pc' = "start" => c_pc = "start"
      ]_vars

\* C13: connect has just failed on a valid reply that has ACK but not SYN.
C13_Witness ==
    /\ c_pc = "failed" /\ step.op = "connect_invalid"
    /\ step.rx.ok /\ has_flag(step.rx, FLAG_ACK) /\ ~has_flag(step.rx, FLAG_SYN)

\* the steps of the receiver
ReceiverOps ==
    ReceiveOps \cup {"listen_syn", "listen_skip", "listen_ack", "listen_invalid_ack",
                     "listen_timeout", "receive_idle"}

\* C14 (ReceiverSpec): available = max(0, max_buffer - len(delivery buffer)) in
\* every state, and every packet the receiver has just sent carries that value
\* as window_size, seq_num = local_seq and flags ACK (SYN+ACK for the reply to
\* a SYN).
C14_AdvertisedWindow ==
    /\ available_buffer = Max(0, MAX_BUFFER_SIZE - BufLen(received_data))
    /\ step.op \in ReceiverOps =>
          \A i \in DOMAIN step.tx :
              /\ step.tx[i].window_size = available_buffer
              /\ step.tx[i].seq_num = seq_num
              /\ step.tx[i].flags = IF step.op = "listen_syn" THEN FLAG_SYN + FLAG_ACK
                                    ELSE FLAG_ACK

\* C14: an in-order segment has just shrunk the advertised window.
C14_Witness ==
    /\ step.op = "frame_in_order" /\ Len(step.tx) = 1
    /\ available_buffer < MAX_BUFFER_SIZE /\ step.tx[1].window_size = available_buffer

\* C18 (SenderSpec): a timeout step resends exactly the stored segments with
\* seq base .. next_seq - 1, in increasing order, leaves base, next_seq and the
\* keys of send_buffer unchanged and leaves the timer running.
C18_TimeoutStep ==
    [][step'.op = "send_data_timeout" =>
            /\ Len(step'.tx) = next_seq_num - base
            /\ \A i \in DOMAIN step'.tx :
                   /\ step'.tx[i].seq_num = base + i - 1
                   /\ step'.tx[i] = send_buffer[base + i - 1]
            /\ UNCHANGED <<base, next_seq_num>>
            /\ DOMAIN send_buffer' = DOMAIN send_buffer
            /\ timer_running'
      ]_vars

\* C18: a timeout has just resent a window of at least two segments.
C18_Witness ==
    /\ step.op = "send_data_timeout" /\ Len(step.tx) >= 2
    /\ step.tx[1].seq_num = base /\ step.tx[2].seq_num = base + 1

\* C19 (SenderSpec): an ACK with ack_num >= base, covering k = ack_num - base + 1
\* segments, gives cwnd + k in slow start, with the state congestion_avoidance
\* exactly when the new cwnd >= ssthresh, and cwnd + k / cwnd in congestion
\* avoidance, which stays; ssthresh is unchanged and base = ack_num + 1.
C19_GrowthOnAck ==
    [][(step'.op = "handle_ack" /\ step'.rx.ack_num >= base) =>
            LET k == step'.rx.ack_num - base + 1 IN
            /\ IF state = "slow_start"
               THEN /\ cwnd' = Rat(cwnd[1] + k * cwnd[2], cwnd[2])
                    /\ state' = IF RatGE(cwnd', ssthresh) THEN "congestion_avoidance"
                                ELSE "slow_start"
               ELSE /\ state = "congestion_avoidance"
                    /\ cwnd' = Rat(cwnd[1] * cwnd[1] + k * cwnd[2] * cwnd[2],
                                   cwnd[1] * cwnd[2])
                    /\ state' = "congestion_avoidance"
            /\ ssthresh' = ssthresh
            /\ base' = step'.rx.ack_num + 1
      ]_vars

\* C19: an ACK has just grown cwnd in congestion avoidance to a value above 2
\* that is not a whole number.
C19_Witness ==
    /\ step.op = "handle_ack" /\ state = "congestion_avoidance"
    /\ cwnd[2] > 1 /\ base >= 2 /\ cwnd[1] > 2 * cwnd[2]

\* C20 (ReceiverSpec): within a session the delivery buffer grows only by the
\* payload of a segment with seq_num = expected_seq; such a segment makes the
\* receiver send one ACK for that seq and add 1 to expected_seq; expected_seq
\* never decreases and changes in no other step.
C20_InOrderAcceptance ==
    [][(s_pc = "receive" /\ s_pc' = "receive") =>
            /\ received_data' # received_data =>
                   /\ step'.rx.ok /\ step'.rx.seq_num = expected_seq
                   /\ received_data' = Append_bytes(received_data, step'.rx.data)
            /\ (step'.op \in ReceiveOps /\ step'.rx.ok /\ step'.rx.seq_num = expected_seq) =>
                   /\ Len(step'.tx) = 1 /\ step'.tx[1].ack_num = step'.rx.seq_num
                   /\ step'.tx[1].flags = FLAG_ACK
                   /\ expected_seq' = expected_seq + 1
                   /\ received_data' = Append_bytes(received_data, step'.rx.data)
            /\ expected_seq' >= expected_seq
            /\ expected_seq' # expected_seq =>
                   /\ step'.rx.ok /\ step'.rx.seq_num = expected_seq
                   /\ expected_seq' = expected_seq + 1
      ]_vars

\* C20: the second in-order segment of a session has just been accepted.
C20_Witness ==
    /\ step.op = "frame_in_order" /\ s_pc = "receive"
    /\ expected_seq >= 2 /\ Len(received_data) >= 2

\* C17 (LossFreeSpec): without loss, when send_data has returned for an input
\* of N chunks the sender has sent the data segments 1 .. N, each once, all are
\* acknowledged, the state is slow_start and cwnd = 1 + N; before the first
\* ACK only segment 1 is sent.
C17_LossFreeScenario ==
    /\ c_pc \in {"done", "closed"} =>
          /\ next_seq_num = 1 + total_packets /\ base = next_seq_num
          /\ cwnd = RatInt(1 + total_packets) /\ state = "slow_start"
    /\ (connected /\ base = 1) => next_seq_num <= 2

\* C15 (CodecSpec): deserialize of the bytes serialize returned is a packet
\* with the seq_num, ack_num, window_size, flags, timestamp and payload of the
\* serialized packet and with the checksum serialize wrote.
C15_RoundTrip ==
    (step.op = "deserialize" /\ flipped = {}) =>
        /\ deserialized # None
        /\ deserialized.seq_num = prtp_packet.seq_num
        /\ deserialized.ack_num = prtp_packet.ack_num
        /\ deserialized.window_size = prtp_packet.window_size
        /\ deserialized.flags = prtp_packet.flags
        /\ deserialized.timestamp = prtp_packet.timestamp
        /\ deserialized.data = prtp_packet.data
        /\ deserialized.checksum = packet_bytes[11] * 256 + packet_bytes[12]
        /\ deserialized.checksum = prtp_packet.checksum

\* C15: a packet with all-ones seq_num and a payload of odd length (the last
\* byte is padded in the checksum) has come back from the round trip.
C15_Witness ==
    /\ step.op = "deserialize" /\ flipped = {} /\ deserialized = prtp_packet
    /\ prtp_packet.seq_num = U32(65535, 65535) /\ Len(prtp_packet.data) % 2 = 1

\* the bits of the three reserved bytes at offsets 13 .. 15
ReservedBits == (8 * 13) .. (8 * 16 - 1)

\* C16 (CodecSpec): deserialize returns None for a serialized packet with any
\* one bit inverted.
C16_ChecksumRejection ==
    (step.op = "deserialize" /\ flipped # {}) => deserialized = None

\* C16, outside the reserved bytes: an inverted bit of a header field, of the
\* checksum or of the payload makes deserialize return None, and an inverted
\* bit of a reserved byte is not noticed.
C16_FlipOutsideReserved ==
    (step.op = "deserialize" /\ flipped # {}) =>
        IF flipped \subseteq ReservedBits THEN deserialized = prtp_packet
        ELSE deserialized = None

\* C21 (Spec), as claimed: a valid segment with seq_num s < expected_seq
\* changes no receiver state and makes the receiver send one ACK with
\* ack_num = s, and when the sender processes that ACK ack_num < base and no
\* sender state changes.
C21_DuplicateStale ==
    [][/\ step'.op = "frame_duplicate" =>
              /\ UNCHANGED <<expected_seq, received_data, available_buffer>>
              /\ Len(step'.tx) = 1 /\ step'.tx[1].ack_num = step'.rx.seq_num
       /\ (step.op = "frame_duplicate" /\ step'.op = "handle_ack" /\ step'.rx = step.tx[1]) =>
              /\ step'.rx.ack_num < base
              /\ UNCHANGED <<base, next_seq_num, send_buffer, cwnd, ssthresh, state,
                             timer_running>>
      ]_vars

\* C21 (Spec), amended: a valid segment with seq_num s < expected_seq changes
\* no receiver state and makes the receiver send one ACK with ack_num = s and
\* the current available as window; the sender processes that ACK like any
\* other: with s < base it leaves base, next_seq, send_buffer, cwnd, ssthresh,
\* state and the timer alone and sends nothing, with s >= base it slides base
\* to s + 1.
C21_DuplicateReAcked ==
    [][/\ step'.op = "frame_duplicate" =>
              /\ step'.rx.ok /\ step'.rx.seq_num < expected_seq
              /\ UNCHANGED <<expected_seq, received_data, available_buffer>>
              /\ Len(step'.tx) = 1 /\ step'.tx[1].ack_num = step'.rx.seq_num
              /\ step'.tx[1].window_size = available_buffer
              /\ step'.tx[1].flags = FLAG_ACK
       /\ (step.op = "frame_duplicate" /\ step'.op = "handle_ack" /\ step'.rx = step.tx[1]) =>
              /\ step'.tx = <<>>
              /\ UNCHANGED <<next_seq_num, ssthresh>>
              /\ IF step'.rx.ack_num < base
                 THEN UNCHANGED <<base, send_buffer, cwnd, state, timer_running>>
                 ELSE /\ base' = step'.rx.ack_num + 1
                      /\ base' <= next_seq_num
      ]_vars

\* C21: the receiver has just re-acknowledged a duplicate that the sender still
\* counts as unacknowledged, and the ACK is on its way to the sender.
C21_Witness ==
    /\ step.op = "frame_duplicate" /\ step.tx[1] \in s2c
    /\ running /\ step.tx[1].ack_num >= base /\ step.tx[1].ack_num < next_seq_num

\* C22 (SenderSpec): rwnd_bytes is never 0; a SYN+ACK that connect accepts and
\* an ACK with ack_num >= base leave rwnd_bytes = 65535 when they carry
\* window_size = 0 and rwnd_bytes = w when they carry a nonzero w.
C22_ZeroWindowMapping ==
    /\ receiver_window # 0
    /\ [][/\ receiver_window' # 0
          /\ (\/ step'.op = "connect_ok"
              \/ step'.op = "handle_ack" /\ step'.rx.ack_num >= base) =>
                 receiver_window' = IF step'.rx.window_size = 0 THEN 65535
                                    ELSE step'.rx.window_size
         ]_vars

\* C22: connect has just accepted a SYN+ACK that advertises a window of 0.
C22_Witness ==
    /\ step.op = "connect_ok" /\ step.rx.window_size = 0
    /\ receiver_window = 65535 /\ connected

Stalled ==
    /\ connected /\ running
    /\ base < total_packets /\ base = next_seq_num
    /\ ~timer_running
    /\ EffectiveWindow(cwnd, receiver_window, max_window_size) = 0
    /\ c2s = {} /\ s2c = {}

\* C24 (BulkSpec): after a successful handshake there is no state with unsent
\* data from which no further transmission can ever happen.
C24_SenderTermination == ~Stalled

\* C24 (BulkSpec), the stalled state is final: every step from it leaves it
\* stalled and sends nothing.
C24_StalledForever ==
    [][Stalled => (Stalled' /\ step'.tx = <<>> /\ UNCHANGED <<base, next_seq_num>>)]_vars

\* C25 (SenderSpec): in every state slow_start goes with cwnd < ssthresh and
\* congestion_avoidance with cwnd >= ssthresh, and ssthresh >= 2; the state
\* goes from congestion_avoidance to slow_start in a timeout step only.
C25_StateMatchesThreshold ==
    /\ state = "slow_start" /\ ~RatGE(cwnd, ssthresh) /\ RatGE(ssthresh, <<2, 1>>)
    /\ [][/\ state' \in {"slow_start", "congestion_avoidance"}
          /\ state' = "slow_start" =>
                 cwnd'[1] * ssthresh'[2] < ssthresh'[1] * cwnd'[2]
          /\ state' = "congestion_avoidance" =>
                 cwnd'[1] * ssthresh'[2] >= ssthresh'[1] * cwnd'[2]
          /\ ssthresh'[2] > 0 /\ ssthresh'[1] >= 2 * ssthresh'[2]
          /\ (state = "congestion_avoidance" /\ state' = "slow_start") =>
                 step'.op = "send_data_timeout"
         ]_vars

\* C25: an ACK has just ended slow start with cwnd exactly at a threshold that
\* an earlier timeout had lowered.
C25_Witness ==
    /\ step.op = "handle_ack" /\ state = "congestion_avoidance"
    /\ cwnd = ssthresh /\ ssthresh # <<16, 1>>

\* C26 (Spec): while the session is open the sender's base is at most the
\* receiver's expected_seq, and the payload of every data segment the sender
\* counts as acknowledged (1 <= seq < base) is in the receiver's delivery
\* buffer.
C26_AckSoundness ==
    (connected /\ s_pc = "receive") =>
        /\ base <= expected_seq
        /\ \A s \in 1 .. (base - 1) :
               \E i \in DOMAIN received_data : received_data[i] = chunks(dlen, s)

\* C27 (BulkSpec): the delivery buffer never holds more than max_buffer bytes,
\* and the receiver never appends a payload larger than the available it had
\* before that segment.
C27_NoReceiverOverrun ==
    /\ BufLen(received_data) <= MAX_BUFFER_SIZE
    /\ step.op = "frame_in_order" =>
          DataLen(step.rx.data) <= MAX_BUFFER_SIZE - (BufLen(received_data) - DataLen(step.rx.data))

====
